---- MODULE Spec2Model ----
(***************************************************************************)
(* ptltectl: one invocation of the Patlite LR6-USB controller.             *)
(*                                                                         *)
(* The model follows src/src/main.rs: run() turns the parsed command into  *)
(* an 8-byte report (assemble_leds, build_report, nibble), send_report()   *)
(* opens the device, claims interface 0 through the retry combinator       *)
(* (claim_interface_with_retry), issues one interrupt write and checks the *)
(* byte count. The USB library is the environment: every outcome it can    *)
(* return is a nondeterministic choice. retry(strategy, op) of the retry   *)
(* crate calls op first and takes a delay from the strategy only after a   *)
(* Retry result, giving up when the strategy has none left; dropping a     *)
(* rusb DeviceHandle releases its claimed interfaces and closes it.        *)
(***************************************************************************)
EXTENDS Integers, Sequences, FiniteSets, TLC

(* ------------------------------------------------------------------ *)
(* Program constants (main.rs:7-34)                                     *)
(* ------------------------------------------------------------------ *)
REPORT_LEN == 8
BUSY_RETRY_ATTEMPTS == 20
COMMAND_VERSION == 0
COMMAND_ID == 0
COLOR_RED == 0
COLOR_YELLOW == 1
COLOR_GREEN == 2
COLOR_BLUE == 3
COLOR_WHITE == 4
LED_KEEP == 15
LED_OFF == 0
BUZZER_KEEP == 15
BUZZER_OFF == 0
BUZZER_PITCH_DEFAULT_A == 14
BUZZER_PITCH_DEFAULT_B == 15
PITCH_OFF == 0
\* width of u8
U8 == 256

(* ------------------------------------------------------------------ *)
(* Bounds of the model                                                  *)
(* ------------------------------------------------------------------ *)
\* numeric arguments of the encoder range over 0..MaxArg (all nibbles and
\* some values above 15)
MaxArg == 18
\* raw reports have 0..MaxRawLen bytes
MaxRawLen == 9

(* ------------------------------------------------------------------ *)
(* u8 arithmetic                                                        *)
(* ------------------------------------------------------------------ *)
RECURSIVE BitOrN(_, _, _)
BitOrN(a, b, n) ==
    IF n = 0 THEN 0
    ELSE (IF (a % 2 = 1) \/ (b % 2 = 1) THEN 1 ELSE 0)
         + 2 * BitOrN(a \div 2, b \div 2, n - 1)

\* a | b on u8
BitOr(a, b) == BitOrN(a, b, 8)

RECURSIVE BitAndN(_, _, _)
BitAndN(a, b, n) ==
    IF n = 0 THEN 0
    ELSE (IF (a % 2 = 1) /\ (b % 2 = 1) THEN 1 ELSE 0)
         + 2 * BitAndN(a \div 2, b \div 2, n - 1)

\* a & b on u8
BitAnd(a, b) == BitAndN(a, b, 8)

\* a << 4 on u8: the high bits fall off
Shl4(a) == (a * 16) % U8

\* fn nibble(value: u8) -> u8
nibble(value) == BitAnd(value, 15)

LED_KEEP_PAIR == BitOr(Shl4(LED_KEEP), LED_KEEP)
LED_KEEP_HIGH == Shl4(LED_KEEP)

(* ------------------------------------------------------------------ *)
(* Values: Option, Result, ControlError                                 *)
(* ------------------------------------------------------------------ *)
None == <<>>
Some(v) == <<v>>
IsSome(o) == Len(o) = 1
Unwrap(o) == o[1]

ErrInvalidArg == <<"InvalidArg">>
ErrDeviceNotFound == <<"DeviceNotFound">>
ErrShortWrite == <<"ShortWrite">>
\* impl From<rusb::Error> for ControlError
ErrUsb(e) == <<"Usb", e>>
ResOk == <<"Ok">>
Pending == <<"Pending">>

(* ------------------------------------------------------------------ *)
(* Report Encoder                                                       *)
(* ------------------------------------------------------------------ *)
build_report_swapped(buzzer, pitch, led_ry, led_gb, led_w) ==
    << COMMAND_VERSION, COMMAND_ID, pitch, buzzer, led_ry, led_gb, led_w, 0 >>

build_report_tagged(buzzer, pitch, led_ry, led_gb, led_w) ==
    << COMMAND_VERSION, buzzer, pitch, led_ry, led_gb, led_w, 0, 0 >>

\* fn build_report(buzzer, pitch, led_ry, led_gb, led_w) -> [u8; 8]
build_report(buzzer, pitch, led_ry, led_gb, led_w) ==
    << COMMAND_VERSION, COMMAND_ID, buzzer, pitch, led_ry, led_gb, led_w, 0 >>

assemble_leds_shifted(color, state) ==
    LET s == nibble(state)
        keep == LED_KEEP_PAIR
    IN  CASE color = COLOR_RED -> <<"Ok", <<BitOr(Shl4(s), LED_KEEP), keep, LED_KEEP_HIGH>> >>
          [] color = COLOR_YELLOW -> <<"Ok", <<BitOr(Shl4(LED_KEEP), s), keep, LED_KEEP_HIGH>> >>
          [] color = COLOR_GREEN -> <<"Ok", <<keep, BitOr(Shl4(s), LED_KEEP), LED_KEEP_HIGH>> >>
          [] color = COLOR_BLUE -> <<"Ok", <<keep, BitOr(Shl4(LED_KEEP), s), LED_KEEP_HIGH>> >>
          [] color = COLOR_WHITE -> <<"Ok", <<keep, keep, s>> >>
          [] OTHER -> <<"Err", ErrInvalidArg>>

\* fn assemble_leds(color, state) -> ControlResult<(u8, u8, u8)>
assemble_leds(color, state) ==
    LET s == nibble(state)
        keep == LED_KEEP_PAIR
    IN  CASE color = COLOR_RED -> <<"Ok", <<BitOr(Shl4(s), LED_KEEP), keep, LED_KEEP_HIGH>> >>
          [] color = COLOR_YELLOW -> <<"Ok", <<BitOr(Shl4(LED_KEEP), s), keep, LED_KEEP_HIGH>> >>
          [] color = COLOR_GREEN -> <<"Ok", <<keep, BitOr(Shl4(s), LED_KEEP), LED_KEEP_HIGH>> >>
          [] color = COLOR_BLUE -> <<"Ok", <<keep, BitOr(Shl4(LED_KEEP), s), LED_KEEP_HIGH>> >>
          [] color = COLOR_WHITE -> <<"Ok", <<keep, keep, Shl4(s)>> >>
          [] OTHER -> <<"Err", ErrInvalidArg>>

(* ------------------------------------------------------------------ *)
(* Commands (enum Command) and the Value Parser ranges                  *)
(* ------------------------------------------------------------------ *)
Light(color, state) == [cmd |-> "Light", args |-> <<color, state>>]
Tower(r, y, g, b, w) == [cmd |-> "Tower", args |-> <<r, y, g, b, w>>]
Buzzer(pattern, limit, pa, pb) == [cmd |-> "Buzzer", args |-> <<pattern, limit, pa, pb>>]
Reset == [cmd |-> "Reset", args |-> <<>>]
Report(bytes) == [cmd |-> "Report", args |-> bytes]

\* parse_color: num <= COLOR_WHITE
parse_color_ok(num) == num \in 0..(U8 - 1) /\ num <= COLOR_WHITE
\* parse_nibble (also the numeric branch of parse_led_state and
\* parse_buzzer_pattern; their aliases are all nibbles): num <= 0x0F
parse_nibble_ok(num) == num \in 0..(U8 - 1) /\ num <= 15
\* parse_byte: any u8
parse_byte_ok(num) == num \in 0..(U8 - 1)

\* the value parsers clap applies to the fields of each variant
Accepted(c) ==
    CASE c.cmd = "Light" -> parse_color_ok(c.args[1]) /\ parse_nibble_ok(c.args[2])
      [] c.cmd = "Tower" -> \A i \in 1..5 : parse_nibble_ok(c.args[i])
      [] c.cmd = "Buzzer" ->
            /\ parse_nibble_ok(c.args[1])
            /\ parse_nibble_ok(c.args[2])
            /\ \A i \in 3..4 : IsSome(c.args[i]) => parse_nibble_ok(Unwrap(c.args[i]))
      [] c.cmd = "Reset" -> TRUE
      [] c.cmd = "Report" -> \A i \in 1..Len(c.args) : parse_byte_ok(c.args[i])

RawBytes(len, base, step) == [i \in 1..len |-> (base + (i - 1) * step) % U8]

Options(S) == {None} \cup {Some(v) : v \in S}

LightCmds(colors, states) == {Light(c, s) : c \in colors, s \in states}
TowerCmds(S) == {Tower(r, y, g, b, w) : r \in S, y \in S, g \in S, b \in S, w \in S}
BuzzerCmds(patterns, limits, pitches) ==
    {Buzzer(p, l, a, b) : p \in patterns, l \in limits,
                          a \in Options(pitches), b \in Options(pitches)}
ReportCmds(bases, steps) ==
    {Report(RawBytes(n, b, s)) : n \in 0..MaxRawLen, b \in bases, s \in steps}

\* the u8 domain of run(), sampled: values above 15 and colors above 4 included
EncCommands ==
    LightCmds(0..MaxArg \cup {U8 - 1}, 0..MaxArg \cup {U8 - 1})
    \cup TowerCmds({0, 1, 2, 3, 4, 15, MaxArg})
    \cup BuzzerCmds(0..MaxArg, 0..MaxArg, {0, 3, 14, 15, MaxArg})
    \cup {Reset}
    \cup ReportCmds({0, 1, 240}, {0, 1, 37})

\* a sample of what Cli::parse() delivers
CliCommands ==
    { c \in LightCmds(0..MaxArg, 0..MaxArg)
           \cup TowerCmds({4, 15})
           \cup BuzzerCmds({2, 15, MaxArg}, {0, 5}, {3})
           \cup {Reset}
           \cup ReportCmds({0, 1}, {0, 37})
        : Accepted(c) }

(* ------------------------------------------------------------------ *)
(* The USB library's outcomes                                           *)
(* ------------------------------------------------------------------ *)
\* rusb::Error values claim_interface returns besides Busy
FatalClaimErrors == {"Access", "NoDevice", "NotFound"}
\* rusb::Error values write_interrupt returns
WriteErrors == {"Timeout", "NoDevice"}
\* rusb::Error values Context::new returns
ContextErrors == {"Other"}

(* ------------------------------------------------------------------ *)
(* State                                                                *)
(* ------------------------------------------------------------------ *)
VARIABLES
    cli,        \* the parsed command
    pc,         \* "run", "context", "open", "claim", "sleep", "write", "exit"
    report,     \* the report run() passes to send_report, <<>> before
    result,     \* what run() returns: Pending, ResOk or a ControlError
    context,    \* rusb context: "none", "live", "dropped"
    handle,     \* device handle: "none", "live", "dropped"
    claimed,    \* interface 0 is claimed by this handle
    claimer,    \* "Idle", "Attempting", "Acquired", "Failed"
    left,       \* delays left in the retry strategy's iterator
    tries,      \* calls of handle.claim_interface
    busy,       \* of which returned Busy
    slept,      \* delays waited
    lastClaim,  \* what the last claim_interface call returned
    writes,     \* calls of handle.write_interrupt
    lastWrite,  \* what write_interrupt returned
    wire        \* the bytes the device received

vars == << cli, pc, report, result, context, handle, claimed, claimer, left,
           tries, busy, slept, lastClaim, writes, lastWrite, wire >>

usbVars == << context, handle, claimed, claimer, left, tries, busy, slept,
              lastClaim, writes, lastWrite, wire >>

Strategy_long == BUSY_RETRY_ATTEMPTS + 1

Strategy_short == BUSY_RETRY_ATTEMPTS \div 2

\* Fixed::from_millis(BUSY_RETRY_DELAY_MS).take(BUSY_RETRY_ATTEMPTS)
Strategy == BUSY_RETRY_ATTEMPTS

Start(commands) ==
    /\ cli \in commands
    /\ pc = "run"
    /\ report = <<>>
    /\ result = Pending
    /\ context = "none"
    /\ handle = "none"
    /\ claimed = FALSE
    /\ claimer = "Idle"
    /\ left = 0
    /\ tries = 0
    /\ busy = 0
    /\ slept = 0
    /\ lastClaim = "none"
    /\ writes = 0
    /\ lastWrite = <<"none">>
    /\ wire = <<>>

Init == Start(CliCommands)

EncInit == Start(EncCommands)

(* ------------------------------------------------------------------ *)
(* run(): the Command Dispatcher up to the call of send_report          *)
(* Each operator gives <<"Send", report>> or <<"Err", error>>.          *)
(* ------------------------------------------------------------------ *)
\* Command::Light
run_light(color, state) ==
    LET leds == assemble_leds(color, state)
    IN  IF leds[1] = "Err" THEN <<"Err", leds[2]>>
        ELSE <<"Send", build_report(BUZZER_KEEP, 0, leds[2][1], leds[2][2], leds[2][3])>>

\* Command::Tower
run_tower(red, yellow, green, blue, white) ==
    LET led_ry == BitOr(Shl4(nibble(red)), nibble(yellow))
        led_gb == BitOr(Shl4(nibble(green)), nibble(blue))
        led_w == Shl4(nibble(white))
    IN  <<"Send", build_report(BUZZER_KEEP, 0, led_ry, led_gb, led_w)>>

run_buzzer_swapped(pattern, limit, pitch_a, pitch_b) ==
    IF IsSome(pitch_a) # IsSome(pitch_b) THEN <<"Err", ErrInvalidArg>>
    ELSE LET a == IF IsSome(pitch_a) THEN Unwrap(pitch_a) ELSE BUZZER_PITCH_DEFAULT_A
             b == IF IsSome(pitch_b) THEN Unwrap(pitch_b) ELSE BUZZER_PITCH_DEFAULT_B
             buzzer == BitOr(Shl4(nibble(pattern)), nibble(limit))
             pitch == BitOr(Shl4(nibble(a)), nibble(b))
         IN  <<"Send", build_report(buzzer, pitch, LED_KEEP_PAIR, LED_KEEP_PAIR, LED_KEEP_HIGH)>>

run_buzzer_lenient(pattern, limit, pitch_a, pitch_b) ==
    LET a == IF IsSome(pitch_a) THEN Unwrap(pitch_a) ELSE BUZZER_PITCH_DEFAULT_A
        b == IF IsSome(pitch_b) THEN Unwrap(pitch_b) ELSE BUZZER_PITCH_DEFAULT_B
        buzzer == BitOr(Shl4(nibble(limit)), nibble(pattern))
        pitch == BitOr(Shl4(nibble(a)), nibble(b))
    IN  <<"Send", build_report(buzzer, pitch, LED_KEEP_PAIR, LED_KEEP_PAIR, LED_KEEP_HIGH)>>

\* Command::Buzzer
run_buzzer(pattern, limit, pitch_a, pitch_b) ==
    IF IsSome(pitch_a) # IsSome(pitch_b) THEN <<"Err", ErrInvalidArg>>
    ELSE LET a == IF IsSome(pitch_a) THEN Unwrap(pitch_a) ELSE BUZZER_PITCH_DEFAULT_A
             b == IF IsSome(pitch_b) THEN Unwrap(pitch_b) ELSE BUZZER_PITCH_DEFAULT_B
             buzzer == BitOr(Shl4(nibble(limit)), nibble(pattern))
             pitch == BitOr(Shl4(nibble(a)), nibble(b))
         IN  <<"Send", build_report(buzzer, pitch, LED_KEEP_PAIR, LED_KEEP_PAIR, LED_KEEP_HIGH)>>

\* Command::Reset
run_reset ==
    <<"Send", build_report(BUZZER_OFF, PITCH_OFF, LED_OFF, LED_OFF, LED_OFF)>>

\* Command::Report: report.copy_from_slice(&bytes)
run_report(bytes) ==
    IF Len(bytes) # REPORT_LEN THEN <<"Err", ErrInvalidArg>>
    ELSE <<"Send", [i \in 1..REPORT_LEN |-> bytes[i]]>>

\* the step of run(): an early return with the error, or the entry of
\* send_report with the report
Dispatch(r) ==
    /\ pc = "run"
    /\ IF r[1] = "Err"
       THEN /\ result' = r[2]
            /\ pc' = "exit"
            /\ report' = report
       ELSE /\ report' = r[2]
            /\ pc' = "context"
            /\ result' = result
    /\ UNCHANGED << cli, usbVars >>

RunLight ==
    /\ cli.cmd = "Light"
    /\ Dispatch(run_light(cli.args[1], cli.args[2]))

RunTower ==
    /\ cli.cmd = "Tower"
    /\ Dispatch(run_tower(cli.args[1], cli.args[2], cli.args[3], cli.args[4], cli.args[5]))

RunBuzzer ==
    /\ cli.cmd = "Buzzer"
    /\ Dispatch(run_buzzer(cli.args[1], cli.args[2], cli.args[3], cli.args[4]))

RunReset ==
    /\ cli.cmd = "Reset"
    /\ Dispatch(run_reset)

RunReport ==
    /\ cli.cmd = "Report"
    /\ Dispatch(run_report(cli.args))

(* ------------------------------------------------------------------ *)
(* send_report()                                                        *)
(* ------------------------------------------------------------------ *)
\* leaving send_report drops the handle and the context: the handle's
\* claimed interfaces are released and the device is closed
Leave(res) ==
    /\ result' = res
    /\ pc' = "exit"
    /\ handle' = IF handle = "live" THEN "dropped" ELSE handle
    /\ context' = IF context = "live" THEN "dropped" ELSE context
    /\ claimed' = FALSE

\* let context = rusb::Context::new()?;
NewContext ==
    /\ pc = "context"
    /\ \/ /\ context' = "live"
          /\ pc' = "open"
          /\ UNCHANGED << result, handle, claimed >>
       \/ \E e \in ContextErrors : Leave(ErrUsb(e))
    /\ UNCHANGED << cli, report, claimer, left, tries, busy, slept, lastClaim,
                    writes, lastWrite, wire >>

\* open_device_with_vid_pid(..).ok_or(DeviceNotFound)?, then
\* set_auto_detach_kernel_driver (result ignored) and the entry of
\* claim_interface_with_retry, which builds the strategy
OpenDevice ==
    /\ pc = "open"
    /\ \/ /\ handle' = "live"
          /\ claimer' = "Attempting"
          /\ left' = Strategy
          /\ pc' = "claim"
          /\ UNCHANGED << result, context, claimed >>
       \/ /\ Leave(ErrDeviceNotFound)
          /\ UNCHANGED << claimer, left >>
    /\ UNCHANGED << cli, report, tries, busy, slept, lastClaim, writes,
                    lastWrite, wire >>

\* claim_interface returns Ok(()): OperationResult::Ok
ClaimOk ==
    /\ pc = "claim"
    /\ tries' = tries + 1
    /\ lastClaim' = "Ok"
    /\ claimed' = TRUE
    /\ claimer' = "Acquired"
    /\ pc' = "write"
    /\ UNCHANGED << cli, report, result, context, handle, left, busy, slept,
                    writes, lastWrite, wire >>

ClaimBusy_unchecked ==
    /\ pc = "claim"
    /\ tries' = tries + 1
    /\ busy' = busy + 1
    /\ lastClaim' = "Busy"
    /\ IF left > 0
       THEN /\ left' = left - 1
            /\ pc' = "sleep"
            /\ UNCHANGED << result, context, handle, claimed, claimer >>
       ELSE /\ claimer' = "Failed"
            /\ pc' = "write"
            /\ UNCHANGED << result, context, handle, claimed, left >>
    /\ UNCHANGED << cli, report, slept, writes, lastWrite, wire >>

\* claim_interface returns Err(Busy): OperationResult::Retry. retry() takes
\* the next delay of the strategy, or gives up with the error when the
\* strategy is used up
ClaimBusy ==
    /\ pc = "claim"
    /\ tries' = tries + 1
    /\ busy' = busy + 1
    /\ lastClaim' = "Busy"
    /\ IF left > 0
       THEN /\ left' = left - 1
            /\ pc' = "sleep"
            /\ UNCHANGED << result, context, handle, claimed, claimer >>
       ELSE /\ claimer' = "Failed"
            /\ Leave(ErrUsb("Busy"))
            /\ UNCHANGED left
    /\ UNCHANGED << cli, report, slept, writes, lastWrite, wire >>

ClaimFatal_retried ==
    /\ pc = "claim"
    /\ \E e \in FatalClaimErrors :
          /\ lastClaim' = e
          /\ IF left > 0
             THEN /\ left' = left - 1
                  /\ pc' = "sleep"
                  /\ UNCHANGED << result, context, handle, claimed, claimer >>
             ELSE /\ claimer' = "Failed"
                  /\ Leave(ErrUsb(e))
                  /\ UNCHANGED left
    /\ tries' = tries + 1
    /\ UNCHANGED << cli, report, busy, slept, writes, lastWrite, wire >>

\* claim_interface returns any other error: OperationResult::Err
ClaimFatal ==
    /\ pc = "claim"
    /\ \E e \in FatalClaimErrors :
          /\ lastClaim' = e
          /\ Leave(ErrUsb(e))
    /\ tries' = tries + 1
    /\ claimer' = "Failed"
    /\ UNCHANGED << cli, report, left, busy, slept, writes, lastWrite, wire >>

\* retry(): sleep(delay) between two attempts
Sleep ==
    /\ pc = "sleep"
    /\ slept' = slept + 1
    /\ pc' = "claim"
    /\ UNCHANGED << cli, report, result, context, handle, claimed, claimer,
                    left, tries, busy, lastClaim, writes, lastWrite, wire >>

WriteInterrupt_unchecked ==
    /\ pc = "write"
    /\ writes' = writes + 1
    /\ \/ \E written \in 0..REPORT_LEN :
             /\ lastWrite' = <<"Ok", written>>
             /\ wire' = wire \o SubSeq(report, 1, written)
             /\ Leave(ResOk)
       \/ \E e \in WriteErrors, sent \in 0..(REPORT_LEN - 1) :
             /\ lastWrite' = <<"Err", e>>
             /\ wire' = wire \o SubSeq(report, 1, sent)
             /\ Leave(ErrUsb(e))
    /\ UNCHANGED << cli, report, claimer, left, tries, busy, slept, lastClaim >>

\* handle.write_interrupt(ENDPOINT_OUT, &report, timeout)? and the check of
\* the byte count. The transfer reports the bytes it moved, or fails; a
\* transfer that fails may have moved some leading bytes before it did
WriteInterrupt ==
    /\ pc = "write"
    /\ writes' = writes + 1
    /\ \/ \E written \in 0..REPORT_LEN :
             /\ lastWrite' = <<"Ok", written>>
             /\ wire' = wire \o SubSeq(report, 1, written)
             /\ Leave(IF written # REPORT_LEN THEN ErrShortWrite ELSE ResOk)
       \/ \E e \in WriteErrors, sent \in 0..(REPORT_LEN - 1) :
             /\ lastWrite' = <<"Err", e>>
             /\ wire' = wire \o SubSeq(report, 1, sent)
             /\ Leave(ErrUsb(e))
    /\ UNCHANGED << cli, report, claimer, left, tries, busy, slept, lastClaim >>

(* ------------------------------------------------------------------ *)
(* Specifications                                                       *)
(* ------------------------------------------------------------------ *)
Next ==
    \/ RunLight
    \/ RunTower
    \/ RunBuzzer
    \/ RunReset
    \/ RunReport
    \/ NewContext
    \/ OpenDevice
    \/ ClaimOk
    \/ ClaimBusy
    \/ ClaimFatal
    \/ Sleep
    \/ WriteInterrupt

\* one invocation of the program
Spec == Init /\ [][Next]_vars

\* the invocation runs on: every call of the USB library and every sleep
\* returns
LiveSpec == Init /\ [][Next]_vars /\ WF_vars(Next)

EncNext ==
    \/ RunLight
    \/ RunTower
    \/ RunBuzzer
    \/ RunReset
    \/ RunReport

\* the encoder alone, over the u8 domain of run()
EncSpec == EncInit /\ [][EncNext]_vars

(* ------------------------------------------------------------------ *)
(* Properties                                                           *)
(* ------------------------------------------------------------------ *)
\* byte i of a report, counted from 0 as in the wire format
Byte(r, i) == r[i + 1]
Hi(b) == b \div 16
Lo(b) == b % 16
\* the five LED nibbles in the order red, yellow, green, blue, white
LedNibbles(r) == << Hi(Byte(r, 4)), Lo(Byte(r, 4)), Hi(Byte(r, 5)),
                    Lo(Byte(r, 5)), Hi(Byte(r, 6)) >>
IsPrefix(s, t) == Len(s) <= Len(t) /\ s = SubSeq(t, 1, Len(s))

\* every claim attempt so far returned Busy
AllBusy == tries > 0 /\ busy = tries

AllBusyEnds(bound) ==
    AllBusy =>
        /\ tries <= bound
        /\ (tries = bound => pc = "exit")
        /\ claimer # "Acquired"
        /\ writes = 0
        /\ wire = <<>>
        /\ (pc = "exit" => claimer = "Failed" /\ result = ErrUsb("Busy"))

\* C1 as stated: when every claim attempt returns Busy, the claimer stops
\* after at most BUSY_RETRY_ATTEMPTS (20) attempts, in Failed with the Busy
\* error, never Acquired, and the write is never reached.
C1_AllBusyStopsAtBound == AllBusyEnds(BUSY_RETRY_ATTEMPTS)

\* C1 amended: when every claim attempt returns Busy, the claimer stops after
\* at most BUSY_RETRY_ATTEMPTS + 1 (21) attempts, the first one and 20
\* retries, in Failed with the Busy error surfaced as a USB error; it is
\* never Acquired and the write is never reached.
C1_AllBusyStopsAfterRetries == AllBusyEnds(BUSY_RETRY_ATTEMPTS + 1)

C1_Witness ==
    /\ pc = "exit"
    /\ AllBusy
    /\ tries = BUSY_RETRY_ATTEMPTS + 1
    /\ result = ErrUsb("Busy")

\* C2: a claim attempt that returns an error other than Busy ends the claimer
\* in Failed with that error right after the attempt, whatever number of Busy
\* outcomes preceded it: no further attempt, no further delay, no write.
C2_FatalShortCircuits ==
    lastClaim \in FatalClaimErrors =>
        /\ claimer = "Failed"
        /\ result = ErrUsb(lastClaim)
        /\ pc = "exit"
        /\ tries = busy + 1
        /\ slept = busy
        /\ busy <= BUSY_RETRY_ATTEMPTS
        /\ writes = 0
        /\ wire = <<>>

C2_Witness ==
    /\ lastClaim = "Access"
    /\ busy = BUSY_RETRY_ATTEMPTS
    /\ result = ErrUsb("Access")

C3_Shape ==
    /\ (pc = "claim" => tries = busy /\ slept = busy)
    /\ (lastClaim = "Busy" /\ busy < BUSY_RETRY_ATTEMPTS =>
            claimer = "Attempting" /\ pc \in {"sleep", "claim"})
    /\ (lastClaim = "Ok" =>
            claimer = "Acquired" /\ tries = busy + 1 /\ slept = busy)
    /\ (claimer = "Acquired" => lastClaim = "Ok")

\* C3: for every k below BUSY_RETRY_ATTEMPTS, after k Busy outcomes the
\* claimer attempts again, and an attempt that succeeds ends it in Acquired
\* after exactly k+1 attempts and k delays, one between each two consecutive
\* attempts; the claimer always ends in Acquired or Failed.
C3_Recovery ==
    /\ []C3_Shape
    /\ (claimer = "Attempting") ~> (claimer \in {"Acquired", "Failed"})

C3_Witness ==
    /\ claimer = "Acquired"
    /\ busy = BUSY_RETRY_ATTEMPTS - 1
    /\ tries = BUSY_RETRY_ATTEMPTS
    /\ slept = BUSY_RETRY_ATTEMPTS - 1

\* success is returned only when the transport reports REPORT_LEN bytes
FullWrite ==
    /\ result = ResOk
    /\ lastWrite = <<"Ok", REPORT_LEN>>
    /\ Len(report) = REPORT_LEN
    /\ wire = report

\* C4 as stated: the invocation ends either with all 8 bytes written and
\* success, or with an error and nothing sent to the device.
C4_NothingSentOnError ==
    /\ (pc = "exit" => FullWrite \/ (result \notin {ResOk, Pending} /\ wire = <<>>))
    /\ (pc # "exit" => result = Pending /\ wire = <<>>)

\* C4 amended: the invocation ends either with all 8 bytes written and
\* success, or with an error and fewer than 8 bytes at the device: none at
\* all when the error precedes the write, and only leading bytes of the
\* report when the write was short or failed; success only when the
\* transport reports 8 bytes.
C4_AllOrError ==
    /\ (pc = "exit" =>
          \/ FullWrite
          \/ /\ result \notin {ResOk, Pending}
             /\ Len(wire) < REPORT_LEN
             /\ IsPrefix(wire, report)
             /\ (writes = 0 => wire = <<>>)
             /\ (lastWrite[1] = "Ok" => result = ErrShortWrite /\ Len(wire) = lastWrite[2])
             /\ (lastWrite[1] = "Err" => result = ErrUsb(lastWrite[2])))
    /\ (pc # "exit" => result = Pending /\ wire = <<>>)

C4_Witness ==
    /\ pc = "exit"
    /\ result = ErrShortWrite
    /\ Len(wire) = REPORT_LEN - 1

\* Light with a color of 0-4, or Tower, after run() has handled it
LedCommandRun ==
    /\ pc # "run"
    /\ \/ cli.cmd = "Light" /\ cli.args[1] \in 0..4
       \/ cli.cmd = "Tower"

C6_LightOneNibble ==
    (cli.cmd = "Light" /\ pc # "run") =>
        LET color == cli.args[1]
            state == cli.args[2]
        IN  IF color \in 0..4
            THEN /\ Len(report) = REPORT_LEN
                 /\ state \in 0..15 =>
                      /\ LedNibbles(report)[color + 1] = state
                      /\ \A k \in 1..5 : k # color + 1 => LedNibbles(report)[k] = 15
                      /\ Lo(Byte(report, 6)) = 0
            ELSE /\ report = <<>>
                 /\ result = ErrInvalidArg
                 /\ pc = "exit"

C6_Witness ==
    /\ cli = Light(COLOR_WHITE, 1)
    /\ report = << 0, 0, 15, 0, 255, 255, 16, 0 >>

HeaderZero(r) == Byte(r, 0) = 0 /\ Byte(r, 1) = 0 /\ Byte(r, 7) = 0

\* C7 as stated: for every command variant, RawReport included, the report
\* handed to the transport has version, commandId and reserved equal to 0.
C7_HeaderAlwaysZero ==
    /\ (report # <<>> => HeaderZero(report))
    /\ (Len(wire) = REPORT_LEN => HeaderZero(wire))

\* C7 amended: for Light, Tower, Buzzer and Reset the report handed to the
\* transport has version, commandId and reserved equal to 0; RawReport hands
\* over the given bytes, whatever their header.
C7_BuiltHeaderZero ==
    cli.cmd # "Report" =>
        /\ (pc \notin {"run", "exit"} => Len(report) = REPORT_LEN)
        /\ (report # <<>> => HeaderZero(report))
        /\ (Len(wire) = REPORT_LEN => HeaderZero(wire))

C7_Witness ==
    /\ cli.cmd = "Buzzer"
    /\ result = ResOk
    /\ wire = report
    /\ HeaderZero(wire)

\* C8: Buzzer(pattern, limit, pitchA?, pitchB?) has buzzer byte
\* (limit<<4)|pattern, pitch byte (pitchA<<4)|pitchB when both are given and
\* 0xEF when both are omitted, every LED nibble KEEP (bytes 0xFF 0xFF 0xF0);
\* arguments above 15 count by their low 4 bits.
C8_BuzzerEncoding ==
    (cli.cmd = "Buzzer" /\ pc # "run" /\ IsSome(cli.args[3]) = IsSome(cli.args[4])) =>
        LET pattern == cli.args[1] % 16
            limit == cli.args[2] % 16
        IN  /\ Len(report) = REPORT_LEN
            /\ Byte(report, 2) = limit * 16 + pattern
            /\ Byte(report, 3) =
                 IF IsSome(cli.args[3])
                 THEN (Unwrap(cli.args[3]) % 16) * 16 + (Unwrap(cli.args[4]) % 16)
                 ELSE 239
            /\ LedNibbles(report) = << 15, 15, 15, 15, 15 >>
            /\ Byte(report, 4) = 255 /\ Byte(report, 5) = 255 /\ Byte(report, 6) = 240

C8_Witness ==
    /\ cli = Buzzer(2, 5, None, None)
    /\ report = << 0, 0, 82, 239, 255, 255, 240, 0 >>

\* Buzzer with one pitch of the two, or a raw report that has not 8 bytes
Malformed ==
    \/ cli.cmd = "Buzzer" /\ IsSome(cli.args[3]) # IsSome(cli.args[4])
    \/ cli.cmd = "Report" /\ Len(cli.args) # 8

\* C9: Buzzer with exactly one pitch and RawReport with a byte count other
\* than 8 end with InvalidArgument before any transport operation: nothing is
\* opened, claimed, written or retried; RawReport with 8 bytes sends them as
\* they are.
C9_InvalidBeforeDevice ==
    /\ (Malformed /\ pc # "run") =>
          /\ pc = "exit"
          /\ result = ErrInvalidArg
          /\ report = <<>>
          /\ context = "none" /\ handle = "none" /\ ~claimed
          /\ tries = 0 /\ slept = 0 /\ writes = 0
          /\ wire = <<>>
    /\ (cli.cmd = "Report" /\ Len(cli.args) = 8 /\ pc # "run") =>
          /\ report = cli.args
          /\ IsPrefix(wire, cli.args)
          /\ (result = ResOk => wire = cli.args)

C9_Witness ==
    /\ cli = Buzzer(2, 5, Some(3), None)
    /\ pc = "exit"
    /\ result = ErrInvalidArg

C10_State ==
    /\ writes <= 1
    /\ (handle # "none" => context # "none")
    /\ (tries > 0 => handle # "none")
    /\ (writes > 0 => claimer = "Acquired" /\ lastClaim = "Ok")
    /\ (claimed => handle = "live" /\ claimer = "Acquired")
    /\ (pc = "exit" => handle # "live" /\ context # "live" /\ ~claimed)

C10_Step ==
    /\ (writes' # writes =>
            claimed /\ handle = "live" /\ claimer = "Acquired" /\ writes = 0)
    /\ (tries' # tries => handle = "live" /\ writes = 0 /\ ~claimed)
    /\ (writes > 0 => writes' = writes /\ tries' = tries /\ wire' = wire)

\* C10: in one invocation the order is open, claim (with retries), at most
\* one write; the write is issued only after the claimer reached Acquired and
\* while the interface is held; no write or claim follows a write, whatever
\* it returned; at the end of the invocation the handle is dropped and the
\* interface released on every path.
C10_Discipline == []C10_State /\ [][C10_Step]_vars

C10_Witness ==
    /\ pc = "exit"
    /\ result = ErrShortWrite
    /\ handle = "dropped"
    /\ ~claimed
    /\ writes = 1
    /\ busy > 0

====
